---- MODULE Spec2Model ----
(***************************************************************************)
(* Model of the gs_usb CAN adapter library (usb_can_lib: the C core and    *)
(* its managed facade UsbCanDevice).                                       *)
(*                                                                         *)
(* The C core keeps one implicit global session (usb_context,              *)
(* device_handle, is_initialized).  Every exported function is one action; *)
(* the outcome of each libusb call it makes is an input of the action.     *)
(* Each call leaves a record of itself in `last`: the session state it was *)
(* invoked in, its return value and the libusb calls it issued, in order.  *)
(***************************************************************************)
EXTENDS Integers, Sequences, FiniteSets, TLC

\* ------------------------------------------------------------- bounds
\* Number of libusb_open successes the model follows.
MaxHandles == 2
\* Number of frames the adapter's bulk-in endpoint holds.
MaxQueue == 2
\* Number of UsbCanDevice objects the managed process creates.
NumObjects == 2

\* ---------------------------------------------------------- constants
NULL == 0
\* usb_context after a successful libusb_init.
CTX == 1
\* Results of a failed libusb call.
LIBUSB_ERROR_IO == -1
LIBUSB_ERROR_TIMEOUT == -7
\* A byte of a local buffer that has not been written yet.
UNINIT == -1

GS_CAN_CONFIG_BYTE_ORDER == 48879
GS_CAN_MODE_RESET == 0
GS_CAN_MODE_START == 1
GS_CAN_MODE_HW_TIMESTAMP_FLAG == 16
GS_CAN_MODE_LOOP_BACK_FLAG == 2
GS_CAN_IDENTIFY_OFF == 0
GS_CAN_IDENTIFY_ON == 1
\* CAN identifier of the OBD-II functional request.
OBD_REQUEST_ID == 2015
\* Positive-response mode byte (0x41) of an OBD-II mode 1 answer.
OBD_POSITIVE_RESPONSE == 65
OBD_PAD == 85
\* fclk_can reported by the adapter in gs_device_bt_const.
DeviceClock == 48000000
\* The signals that end the process when an integer division traps and
\* when a buffer overrun is detected.
SIGFPE == 8
SIGABRT == 6

\* sizeof of the packed records handed to libusb.
SizeOf(what) ==
    CASE what = "HOST_FORMAT" -> 4
      [] what = "DEVICE_CONFIG" -> 12
      [] what = "IDENTIFY" -> 4
      [] what = "BT_CONST" -> 40
      [] what = "BITTIMING" -> 20
      [] what = "MODE" -> 8
      [] what = "FRAME" -> 24

\* ------------------------------------------------------------- frames
\* A CAN frame as the facade of usb_can_receive_frame sees it: gs_host_frame
\* without the fields the library never reads.
Frame(id, dlc, bytes, ts) ==
    [can_id |-> id, can_dlc |-> dlc, data |-> bytes, timestamp_us |-> ts]

\* memcpy(dst, src, n) on byte buffers: the first n bytes of dst are replaced.
memcpy(dst, src, n) ==
    [i \in 1..Len(dst) |-> IF i <= n THEN src[i] ELSE dst[i]]

Zero8 == <<0, 0, 0, 0, 0, 0, 0, 0>>
Uninit8 == <<UNINIT, UNINIT, UNINIT, UNINIT, UNINIT, UNINIT, UNINIT, UNINIT>>

\* The request with the unused bytes zeroed instead of padded with 0x55.
request_data_zero_padded(pid) == <<2, 1, pid, 0, 0, 0, 0, 0>>

\* The request payload usb_can_read_obd_pid builds.
request_data(pid) == <<2, 1, pid, OBD_PAD, OBD_PAD, OBD_PAD, OBD_PAD, OBD_PAD>>

\* PIDs queried in the model: engine RPM (0x0C) and vehicle speed (0x0D).
Pids == {12, 13}
\* Every value of the parameter uint8_t pid.
AllPids == 0..255

\* Frames the adapter may deliver on bulk-in: the loop-back of a request, the
\* answers of the ECU (well-formed, negative, truncated).
EchoFrame(pid) == Frame(OBD_REQUEST_ID, 8, request_data(pid), 0)
RpmResponse == Frame(2024, 5, <<4, 65, 12, 26, 248, 0, 0, 0>>, 0)
NegativeResponse == Frame(2024, 4, <<3, 127, 1, 18, 0, 0, 0, 0>>, 0)
ShortResponse == Frame(2024, 2, <<1, 65, 0, 0, 0, 0, 0, 0>>, 0)
\* A positive answer to pid that carries the given data bytes.
ObdResponse(pid, bytes) ==
    Frame(2024, 3 + Len(bytes),
          memcpy(Zero8, <<2 + Len(bytes), 65, pid>> \o bytes, 3 + Len(bytes)),
          0)

DeviceFrames ==
    {EchoFrame(12), RpmResponse, NegativeResponse, ShortResponse}

\* Records with a can_dlc above 8, which the library does not expect: an
\* answer to PID 0x0C announcing 12 data bytes, and the largest can_dlc.
LongResponse == Frame(2024, 12, <<11, 65, 12, 1, 2, 3, 4, 5>>, 0)
LongestFrame == Frame(291, 255, <<1, 2, 3, 4, 5, 6, 7, 8>>, 0)

\* -------------------------------------------------------------- state
VARIABLES
    is_initialized,   \* static int is_initialized
    usb_context,      \* static libusb_context* usb_context
    device_handle,    \* static libusb_device_handle* device_handle
    nextHandle,       \* libusb: the handle the next libusb_open returns
    closeCount,       \* libusb: how often libusb_close was given each handle
    configured,       \* Host Config was accepted on device_handle
    started,          \* the last accepted Mode record on device_handle is START
    rxq,              \* adapter: frames pending on bulk-in endpoint 0x81
    vehicle,          \* ECU: the data bytes it answers each pid with
    crashed,          \* the process was ended by a trap inside the library
    hardened,         \* the build aborts on a buffer overrun instead of
                      \* overwriting what follows the buffer
    response_data,    \* caller's buffer handed to usb_can_read_obd_pid
    response_length,  \* caller's length variable handed to usb_can_read_obd_pid
    constructed,      \* UsbCanDevice: the constructor has returned
    IsConnected,      \* UsbCanDevice.IsConnected
    disposed,         \* UsbCanDevice._disposed
    last              \* the call just made

vars ==
    <<is_initialized, usb_context, device_handle, nextHandle, closeCount,
      configured, started, rxq, vehicle, crashed, hardened, response_data,
      response_length, constructed, IsConnected, disposed, last>>

Handles == 1..MaxHandles
Objects == 1..NumObjects

\* The library and adapter state as one value, so that a function that calls
\* another (usb_can_read_obd_pid, the facade's methods) can be composed.
Lib ==
    [is_initialized |-> is_initialized, usb_context |-> usb_context,
     device_handle |-> device_handle, nextHandle |-> nextHandle,
     closeCount |-> closeCount, configured |-> configured,
     started |-> started, rxq |-> rxq, crashed |-> crashed,
     hardened |-> hardened]

\* The session state of section 4.4, read off the library and adapter state.
SessionState(s) ==
    IF s.device_handle = NULL THEN "Closed"
    ELSE IF ~s.configured THEN "Opened"
    ELSE IF s.started THEN "Running"
    ELSE "Configured"

\* One libusb call: what was called, with which request or record, whether
\* it succeeded, and the record written or read.
Ev(call, req, ok, payload) ==
    [call |-> call, req |-> req, ok |-> ok, payload |-> payload]

\* The result of an exported function: the state it leaves, its return
\* value, the libusb calls it issued and its output parameters.
R(s, ret, log, out) == [s |-> s, ret |-> ret, log |-> log, out |-> out]

NoOut == <<>>

\* A call that does not return: the process is ended by signal sig.  The
\* result kept for it is that of a process killed by sig, so that no caller
\* inside the library goes on after it.
Trap(s, sig, log, out) ==
    R([s EXCEPT !.crashed = TRUE], -sig, Append(log, Ev("trap", "", FALSE, sig)), out)

\* ------------------------------------------------------------ helpers
\* libusb_control_transfer, host to device: bytes written, or an error.
control_out(request, payload, ok) ==
    [ret |-> IF ok THEN SizeOf(request) ELSE LIBUSB_ERROR_IO,
     ev |-> Ev("control_out", request, ok, payload)]

\* libusb_control_transfer, device to host.
\* A reply that carries only the first n bytes of record f.
ShortTransfer(f, n) == [short |-> n, of |-> f]
IsShort(x) == "short" \in DOMAIN x

\* libusb_control_transfer, device to host: the number of bytes the device
\* returned, which may be fewer than asked for.
control_in(request, payload, ok) ==
    [ret |-> IF ~ok THEN LIBUSB_ERROR_IO
             ELSE IF IsShort(payload) THEN payload.short
             ELSE SizeOf(request),
     ev |-> Ev("control_in", request, ok, payload)]

\* libusb_bulk_transfer on endpoint 0x02.
data_out(frame, ok) ==
    [ret |-> IF ok THEN SizeOf("FRAME") ELSE LIBUSB_ERROR_IO,
     ev |-> Ev("bulk_out", "FRAME", ok, frame)]


\* The number of bytes a transfer x of the adapter's queue delivers.
Transferred(x) == IF IsShort(x) THEN x.short ELSE SizeOf("FRAME")

\* The receive buffer after transfer x was stored into it: a gs_host_frame
\* holding `was`, of which the first Transferred(x) bytes are overwritten
\* (can_id at offset 4, can_dlc at 8, data at 12..19, timestamp_us at 20).
Stored(was, x) ==
    IF ~IsShort(x) THEN x
    ELSE Frame(IF x.short >= 8 THEN x.of.can_id ELSE was.can_id,
               IF x.short >= 9 THEN x.of.can_dlc ELSE was.can_dlc,
               [i \in 1..8 |-> IF x.short >= 12 + i THEN x.of.data[i]
                                ELSE was.data[i]],
               IF x.short >= 24 THEN x.of.timestamp_us ELSE was.timestamp_us)

\* libusb_bulk_transfer on endpoint 0x81 into a zeroed gs_host_frame: the
\* head of the adapter's queue, a timeout when nothing is pending, or a
\* transport error.  The result is the number of bytes transferred.
data_in(q, ok) ==
    IF ~ok THEN
        [ret |-> LIBUSB_ERROR_IO, q |-> q, frame |-> Frame(0, 0, Zero8, 0),
         ev |-> Ev("bulk_in", "FRAME", FALSE, LIBUSB_ERROR_IO)]
    ELSE IF q = <<>> THEN
        [ret |-> LIBUSB_ERROR_TIMEOUT, q |-> q, frame |-> Frame(0, 0, Zero8, 0),
         ev |-> Ev("bulk_in", "FRAME", FALSE, LIBUSB_ERROR_TIMEOUT)]
    ELSE
        [ret |-> Transferred(Head(q)), q |-> Tail(q),
         frame |-> Stored(Frame(0, 0, Zero8, 0), Head(q)),
         ev |-> Ev("bulk_in", "FRAME", TRUE, Head(q))]

\* ------------------------------------------------- exported functions
usb_can_init(s, ok) ==
    IF s.is_initialized THEN R(s, 0, <<>>, NoOut)
    ELSE IF ~ok THEN
        R(s, LIBUSB_ERROR_IO, <<Ev("libusb_init", "", FALSE, 0)>>, NoOut)
    ELSE
        R([s EXCEPT !.usb_context = CTX, !.is_initialized = TRUE],
          0, <<Ev("libusb_init", "", TRUE, CTX)>>, NoOut)

\* usb_can_cleanup without `device_handle = NULL`: the pointer dangles.
usb_can_cleanup_keeps_handle(s) ==
    LET h == s.device_handle
        s1 == IF h # NULL
              THEN [s EXCEPT !.closeCount[h] = IF @ < 2 THEN @ + 1 ELSE @,
                             !.configured = FALSE, !.started = FALSE]
              ELSE s
        log1 == IF h # NULL THEN <<Ev("libusb_close", "", TRUE, h)>> ELSE <<>>
        s2 == IF s1.usb_context # NULL
              THEN [s1 EXCEPT !.usb_context = NULL]
              ELSE s1
        log2 == IF s1.usb_context # NULL
                THEN <<Ev("libusb_exit", "", TRUE, s1.usb_context)>>
                ELSE <<>>
    IN  R([s2 EXCEPT !.is_initialized = FALSE], 0, log1 \o log2, NoOut)

usb_can_cleanup(s) ==
    LET h == s.device_handle
        s1 == IF h # NULL
              THEN [s EXCEPT !.closeCount[h] = IF @ < 2 THEN @ + 1 ELSE @,
                             !.device_handle = NULL,
                             !.configured = FALSE, !.started = FALSE]
              ELSE s
        log1 == IF h # NULL THEN <<Ev("libusb_close", "", TRUE, h)>> ELSE <<>>
        s2 == IF s1.usb_context # NULL
              THEN [s1 EXCEPT !.usb_context = NULL]
              ELSE s1
        log2 == IF s1.usb_context # NULL
                THEN <<Ev("libusb_exit", "", TRUE, s1.usb_context)>>
                ELSE <<>>
    IN  R([s2 EXCEPT !.is_initialized = FALSE], 0, log1 \o log2, NoOut)

\* usb_can_open_device without its test of is_initialized.
usb_can_open_device_without_init(s, found) ==
    IF found = "list_error" THEN R(s, LIBUSB_ERROR_IO, <<>>, NoOut)
    ELSE IF found = "opened" THEN
        R([s EXCEPT !.device_handle = s.nextHandle, !.nextHandle = @ + 1,
                    !.configured = FALSE, !.started = FALSE],
          0, <<Ev("libusb_open", "", TRUE, s.nextHandle)>>, NoOut)
    ELSE R(s, -1, <<>>, NoOut)

\* found: "list_error" (libusb_get_device_list fails), "none" (no matching
\* device, or libusb_open fails on each), "opened" (libusb_open succeeds).
usb_can_open_device(s, found) ==
    IF ~s.is_initialized THEN R(s, -1, <<>>, NoOut)
    ELSE IF found = "list_error" THEN R(s, LIBUSB_ERROR_IO, <<>>, NoOut)
    ELSE IF found = "opened" THEN
        R([s EXCEPT !.device_handle = s.nextHandle, !.nextHandle = @ + 1,
                    !.configured = FALSE, !.started = FALSE],
          0, <<Ev("libusb_open", "", TRUE, s.nextHandle)>>, NoOut)
    ELSE R(s, -1, <<>>, NoOut)

ConfigureSteps ==
    <<"get_config_descriptor", "set_configuration", "claim_interface",
      "set_interface_alt_setting", "HOST_FORMAT">>

\* One step of usb_can_configure_device as a libusb call.
ConfigureEv(i, ok) ==
    IF i = 5
    THEN control_out("HOST_FORMAT", [byte_order |-> GS_CAN_CONFIG_BYTE_ORDER], ok).ev
    ELSE Ev(ConfigureSteps[i], "", ok, 0)

\* usb_can_configure_device without the `if (ret < 0) return ret;` after
\* libusb_claim_interface: a failed claim is overwritten by the next result.
usb_can_configure_device_ignores_claim(s, fail) ==
    IF s.device_handle = NULL THEN R(s, -1, <<>>, NoOut)
    ELSE IF fail = 1 THEN
        R(s, LIBUSB_ERROR_IO, <<ConfigureEv(1, FALSE)>>, NoOut)
    ELSE IF fail = 2 THEN
        R(s, LIBUSB_ERROR_IO,
          <<ConfigureEv(1, TRUE), ConfigureEv(2, FALSE)>>, NoOut)
    ELSE IF fail = 4 THEN
        R(s, LIBUSB_ERROR_IO,
          <<ConfigureEv(1, TRUE), ConfigureEv(2, TRUE), ConfigureEv(3, TRUE),
            ConfigureEv(4, FALSE)>>, NoOut)
    ELSE IF fail = 5 THEN
        R(s, LIBUSB_ERROR_IO,
          <<ConfigureEv(1, TRUE), ConfigureEv(2, TRUE), ConfigureEv(3, TRUE),
            ConfigureEv(4, TRUE), ConfigureEv(5, FALSE)>>, NoOut)
    ELSE
        R([s EXCEPT !.configured = TRUE], 0,
          <<ConfigureEv(1, TRUE), ConfigureEv(2, TRUE), ConfigureEv(3, fail # 3),
            ConfigureEv(4, TRUE), ConfigureEv(5, TRUE)>>, NoOut)

\* fail: the step (1..5) whose libusb call fails, 0 when none does.
usb_can_configure_device(s, fail) ==
    IF s.device_handle = NULL THEN R(s, -1, <<>>, NoOut)
    ELSE IF fail = 1 THEN
        R(s, LIBUSB_ERROR_IO, <<ConfigureEv(1, FALSE)>>, NoOut)
    ELSE IF fail = 2 THEN
        R(s, LIBUSB_ERROR_IO,
          <<ConfigureEv(1, TRUE), ConfigureEv(2, FALSE)>>, NoOut)
    ELSE IF fail = 3 THEN
        R(s, LIBUSB_ERROR_IO,
          <<ConfigureEv(1, TRUE), ConfigureEv(2, TRUE),
            ConfigureEv(3, FALSE)>>, NoOut)
    ELSE IF fail = 4 THEN
        R(s, LIBUSB_ERROR_IO,
          <<ConfigureEv(1, TRUE), ConfigureEv(2, TRUE), ConfigureEv(3, TRUE),
            ConfigureEv(4, FALSE)>>, NoOut)
    ELSE IF fail = 5 THEN
        R(s, LIBUSB_ERROR_IO,
          <<ConfigureEv(1, TRUE), ConfigureEv(2, TRUE), ConfigureEv(3, TRUE),
            ConfigureEv(4, TRUE), ConfigureEv(5, FALSE)>>, NoOut)
    ELSE
        R([s EXCEPT !.configured = TRUE], 0,
          <<ConfigureEv(1, TRUE), ConfigureEv(2, TRUE), ConfigureEv(3, TRUE),
            ConfigureEv(4, TRUE), ConfigureEv(5, TRUE)>>, NoOut)

\* gs_device_config as the adapter reports it.
DeviceConfig == [sw_version |-> 2, hw_version |-> 1]

usb_can_get_device_info(s, ok) ==
    IF s.device_handle = NULL THEN R(s, -1, <<>>, NoOut)
    ELSE LET t == control_in("DEVICE_CONFIG", DeviceConfig, ok)
         IN  IF t.ret < 0 THEN R(s, t.ret, <<t.ev>>, NoOut)
             ELSE R(s, 0, <<t.ev>>, NoOut)

\* usb_can_identify with the argument itself as the mode.
usb_can_identify_passes_enable(s, enable, ok) ==
    IF s.device_handle = NULL THEN R(s, -1, <<>>, NoOut)
    ELSE LET t == control_out("IDENTIFY", [mode |-> enable], ok)
         IN  R(s, t.ret, <<t.ev>>, NoOut)

usb_can_identify(s, enable, ok) ==
    IF s.device_handle = NULL THEN R(s, -1, <<>>, NoOut)
    ELSE LET mode == IF enable # 0 THEN GS_CAN_IDENTIFY_ON ELSE GS_CAN_IDENTIFY_OFF
             t == control_out("IDENTIFY", [mode |-> mode], ok)
         IN  R(s, t.ret, <<t.ev>>, NoOut)

\* gs_device_bt_const as the adapter reports it: the clock and the limits
\* of the prescaler.
BtConst(fclk_can, brp_min, brp_max, brp_inc) ==
    [fclk_can |-> fclk_can, brp_min |-> brp_min, brp_max |-> brp_max,
     brp_inc |-> brp_inc]

\* The divisor bitrate * 16 of usb_can_set_bitrate in uint32_t arithmetic,
\* in units of 16: (bitrate * 16) mod 2^32 = (bitrate mod 2^28) * 16.
divisor16(bitrate) == bitrate % 268435456

\* bit_timing.brp = bt_const.fclk_can / (bitrate * 16) for a divisor other
\* than 0, computed as (fclk_can / 16) / d with d the divisor in units of 16:
\* floor(a / (16 * d)) = floor(floor(a / 16) / d).
brp(fclk_can, bitrate) == (fclk_can \div 16) \div divisor16(bitrate)

\* The local bt_const after the BT_CONST read: the fields the reply covers
\* (fclk_can is bytes 4..7, brp_min 28..31, brp_max 32..35, brp_inc 36..39),
\* and what the stack held before for the others.
bt_const_read(stack, reply) ==
    IF ~IsShort(reply) THEN reply
    ELSE [fclk_can |-> IF reply.short >= 8 THEN reply.of.fclk_can
                       ELSE stack.fclk_can,
          brp_min |-> IF reply.short >= 32 THEN reply.of.brp_min
                      ELSE stack.brp_min,
          brp_max |-> IF reply.short >= 36 THEN reply.of.brp_max
                      ELSE stack.brp_max,
          brp_inc |-> IF reply.short >= 40 THEN reply.of.brp_inc
                      ELSE stack.brp_inc]

\* usb_can_set_bitrate.  The unsigned division by a divisor of 0 is undefined:
\* it traps (trap) and ends the process, or it leaves some value (quotient).
\* bt_const is not initialised: where the reply is short, the fields it does
\* not cover hold what the stack held (stack).
usb_can_set_bitrate(s, bitrate, reply, stack, trap, quotient, okRead, okWrite) ==
    IF s.device_handle = NULL THEN R(s, -1, <<>>, NoOut)
    ELSE LET rd == control_in("BT_CONST", reply, okRead)
             bt_const == bt_const_read(stack, reply)
         IN  IF rd.ret < 0 THEN R(s, rd.ret, <<rd.ev>>, NoOut)
             ELSE IF divisor16(bitrate) = 0 /\ trap
             THEN Trap(s, SIGFPE, <<rd.ev>>, NoOut)
             ELSE LET bit_timing ==
                          [prop_seg |-> 0, phase_seg1 |-> 13, phase_seg2 |-> 2,
                           sjw |-> 1,
                           brp |-> IF divisor16(bitrate) = 0 THEN quotient
                                   ELSE brp(bt_const.fclk_can, bitrate)]
                      wr == control_out("BITTIMING", bit_timing, okWrite)
                  IN  R(s, wr.ret, <<rd.ev, wr.ev>>, NoOut)

\* usb_can_start with the loop-back flag replacing the timestamp flag
\* (flags = instead of flags |=).
usb_can_start_overwrites_flags(s, enable_loopback, ok) ==
    IF s.device_handle = NULL THEN R(s, -1, <<>>, NoOut)
    ELSE LET flags == IF enable_loopback # 0
                      THEN GS_CAN_MODE_LOOP_BACK_FLAG
                      ELSE GS_CAN_MODE_HW_TIMESTAMP_FLAG
             t == control_out("MODE", [mode |-> GS_CAN_MODE_START, flags |-> flags], ok)
         IN  R([s EXCEPT !.started = IF ok THEN TRUE ELSE @], t.ret, <<t.ev>>, NoOut)

usb_can_start(s, enable_loopback, ok) ==
    IF s.device_handle = NULL THEN R(s, -1, <<>>, NoOut)
    ELSE LET flags == IF enable_loopback # 0
                      THEN GS_CAN_MODE_HW_TIMESTAMP_FLAG + GS_CAN_MODE_LOOP_BACK_FLAG
                      ELSE GS_CAN_MODE_HW_TIMESTAMP_FLAG
             t == control_out("MODE", [mode |-> GS_CAN_MODE_START, flags |-> flags], ok)
         IN  R([s EXCEPT !.started = IF ok THEN TRUE ELSE @], t.ret, <<t.ev>>, NoOut)

usb_can_stop(s, ok) ==
    IF s.device_handle = NULL THEN R(s, -1, <<>>, NoOut)
    ELSE LET t == control_out("MODE", [mode |-> GS_CAN_MODE_RESET, flags |-> 0], ok)
         IN  R([s EXCEPT !.started = IF ok THEN FALSE ELSE @], t.ret, <<t.ev>>, NoOut)

\* gs_host_frame frame = { 0 } with can_id, can_dlc and data filled in.
host_frame(can_id, data, length) ==
    [echo_id |-> 0, can_id |-> can_id, can_dlc |-> length, channel |-> 0,
     flags |-> 0, reserved |-> 0, data |-> memcpy(Zero8, data, length),
     timestamp_us |-> 0]

\* A null pointer passed for a byte buffer.
NoBuffer == <<>>

\* usb_can_send_frame with the bound of the length test off by one.
usb_can_send_frame_accepts_nine(s, can_id, data, length, ok) ==
    IF s.device_handle = NULL \/ data = NoBuffer \/ length > 9
    THEN R(s, -1, <<>>, NoOut)
    ELSE LET t == data_out(host_frame(can_id, data, length), ok)
         IN  R(s, t.ret, <<t.ev>>, NoOut)

usb_can_send_frame(s, can_id, data, length, ok) ==
    IF s.device_handle = NULL \/ data = NoBuffer \/ length > 8
    THEN R(s, -1, <<>>, NoOut)
    ELSE LET t == data_out(host_frame(can_id, data, length), ok)
         IN  R(s, t.ret, <<t.ev>>, NoOut)

\* The four output parameters of usb_can_receive_frame.
RxOut(can_id, data, length, timestamp) ==
    [can_id |-> can_id, data |-> data, length |-> length, timestamp |-> timestamp]

\* usb_can_receive_frame.  memcpy(data, frame.data, frame.can_dlc) with
\* can_dlc > 8 runs over the caller's 8 bytes: a hardened build aborts, any
\* other build overwrites what follows the buffer and goes on.
usb_can_receive_frame(s, out, ok) ==
    IF s.device_handle = NULL THEN R(s, -1, <<>>, out)
    ELSE LET t == data_in(s.rxq, ok)
         IN  IF t.ret < 0 THEN R(s, t.ret, <<t.ev>>, out)
             ELSE IF t.frame.can_dlc > 8 /\ s.hardened
             THEN Trap([s EXCEPT !.rxq = t.q], SIGABRT, <<t.ev>>, out)
             ELSE R([s EXCEPT !.rxq = t.q], 0, <<t.ev>>,
                    RxOut(t.frame.can_id,
                          memcpy(out.data, t.frame.data, t.frame.can_dlc),
                          t.frame.can_dlc, t.frame.timestamp_us))

\* The do-while loop of usb_can_purge_rx_queue from its n-th data_in on;
\* errAt is the data_in call that meets a transport error (0: none does).
RECURSIVE purge_loop(_, _, _, _, _)
purge_loop(q, purged, log, n, errAt) ==
    LET t == data_in(q, n # errAt)
    IN  IF t.ret >= 0
        THEN purge_loop(t.q, purged + 1, Append(log, t.ev), n + 1, errAt)
        ELSE [q |-> t.q, purged |-> purged, log |-> Append(log, t.ev)]

\* usb_can_purge_rx_queue with a single read in place of the loop.
usb_can_purge_rx_queue_reads_once(s, errAt) ==
    IF s.device_handle = NULL THEN R(s, -1, <<>>, NoOut)
    ELSE LET t == data_in(s.rxq, errAt # 1)
         IN  R([s EXCEPT !.rxq = t.q], IF t.ret >= 0 THEN 1 ELSE 0, <<t.ev>>, NoOut)

usb_can_purge_rx_queue(s, errAt) ==
    IF s.device_handle = NULL THEN R(s, -1, <<>>, NoOut)
    ELSE LET l == purge_loop(s.rxq, 0, <<>>, 1, errAt)
         IN  R([s EXCEPT !.rxq = l.q], l.purged, l.log, NoOut)

\* The output parameters of usb_can_read_obd_pid.
ObdOut(data, length) == [response_data |-> data, response_length |-> length]

\* The check with the indices off by one: data[0] == 0x41 && data[1] == pid.
obd_response_valid_off_by_one(length, data, pid) ==
    length >= 3 /\ data[1] = OBD_POSITIVE_RESPONSE /\ data[2] = pid

\* length >= 3 && data[1] == 0x41 && data[2] == pid (data is indexed from 1
\* here).
obd_response_valid(length, data, pid) ==
    length >= 3 /\ data[2] = OBD_POSITIVE_RESPONSE /\ data[3] = pid

\* *response_length = length - 3;
\* memcpy(response_data, &data[3], *response_length);
\* What is read past the 8 bytes of data is indeterminate.
obd_response_value(length, data, out) ==
    ObdOut([i \in 1..8 |-> IF i > length - 3 THEN out.response_data[i]
                           ELSE IF i + 3 <= 8 THEN data[i + 3]
                           ELSE UNINIT],
           length - 3)

\* The check with the outputs written before the frame is validated.
obd_check_response_writes_first(s, log, length, data, pid, out) ==
    IF obd_response_valid(length, data, pid)
    THEN R(s, 0, log, obd_response_value(length, data, out))
    ELSE R(s, -1, log, obd_response_value(length, data, out))

\* The check of the second frame that ends usb_can_read_obd_pid: the caller's
\* buffer and length are written only when the frame is accepted.
obd_check_response(s, log, length, data, pid, out) ==
    IF obd_response_valid(length, data, pid)
    THEN R(s, 0, log, obd_response_value(length, data, out))
    ELSE R(s, -1, log, out)

\* usb_can_read_obd_pid that looks at the first frame: one that is not the
\* echo of the request (another can_id) is taken for the answer itself.
usb_can_read_obd_pid_inspects_echo(s, pid, out, okSend, okEcho, okResp) ==
    IF s.device_handle = NULL THEN R(s, -1, <<>>, out)
    ELSE
    LET tx == usb_can_send_frame(s, OBD_REQUEST_ID, request_data(pid), 8, okSend)
    IN  IF tx.ret < 0 THEN R(tx.s, tx.ret, tx.log, out)
        ELSE
        LET locals == RxOut(UNINIT, Uninit8, UNINIT, UNINIT)
            echo == usb_can_receive_frame(tx.s, locals, okEcho)
        IN  IF echo.ret < 0 THEN R(echo.s, echo.ret, tx.log \o echo.log, out)
            ELSE IF echo.out.can_id # OBD_REQUEST_ID
            THEN obd_check_response(echo.s, tx.log \o echo.log, echo.out.length,
                                    echo.out.data, pid, out)
            ELSE
            LET resp == usb_can_receive_frame(echo.s, echo.out, okResp)
                log == tx.log \o echo.log \o resp.log
                length == resp.out.length
                data == resp.out.data
            IN  IF resp.ret < 0 THEN R(resp.s, resp.ret, log, out)
                ELSE obd_check_response(resp.s, log, length, data, pid, out)

\* out: the caller's response buffer and length as they are before the call.
usb_can_read_obd_pid(s, pid, out, okSend, okEcho, okResp) ==
    IF s.device_handle = NULL THEN R(s, -1, <<>>, out)
    ELSE
    LET tx == usb_can_send_frame(s, OBD_REQUEST_ID, request_data(pid), 8, okSend)
    IN  IF tx.ret < 0 THEN R(tx.s, tx.ret, tx.log, out)
        ELSE
        LET locals == RxOut(UNINIT, Uninit8, UNINIT, UNINIT)
            echo == usb_can_receive_frame(tx.s, locals, okEcho)
        IN  IF echo.ret < 0 THEN R(echo.s, echo.ret, tx.log \o echo.log, out)
            ELSE
            LET resp == usb_can_receive_frame(echo.s, echo.out, okResp)
                log == tx.log \o echo.log \o resp.log
                length == resp.out.length
                data == resp.out.data
            IN  IF resp.ret < 0 THEN R(resp.s, resp.ret, log, out)
                ELSE obd_check_response(resp.s, log, length, data, pid, out)

\* ------------------------------------------------------------ actions
\* What `last` keeps of a call.
Call(op, arg, r) ==
    [op |-> op, arg |-> arg, pre |-> SessionState(Lib), ret |-> r.ret,
     log |-> r.log, out |-> r.out]

\* The library and adapter state after a call.  A process that was ended by
\* a trap makes no further call.
Commit(r) ==
    /\ ~crashed
    /\ crashed' = r.s.crashed
    /\ hardened' = r.s.hardened
    /\ is_initialized' = r.s.is_initialized
    /\ usb_context' = r.s.usb_context
    /\ device_handle' = r.s.device_handle
    /\ nextHandle' = r.s.nextHandle
    /\ closeCount' = r.s.closeCount
    /\ configured' = r.s.configured
    /\ started' = r.s.started
    /\ rxq' = r.s.rxq
    /\ vehicle' = vehicle

callerVars == <<response_data, response_length>>
facadeVars == <<constructed, IsConnected, disposed>>
libVars ==
    <<is_initialized, usb_context, device_handle, nextHandle, closeCount,
      configured, started, rxq, crashed, hardened>>

\* The state after the library is loaded, whatever the build.
Loaded ==
    /\ is_initialized = FALSE
    /\ usb_context = NULL
    /\ device_handle = NULL
    /\ nextHandle = 1
    /\ closeCount = [h \in Handles |-> 0]
    /\ configured = FALSE
    /\ started = FALSE
    /\ rxq = <<>>
    /\ crashed = FALSE
    /\ response_data = Zero8
    /\ response_length = 0
    /\ constructed = [o \in Objects |-> FALSE]
    /\ IsConnected = [o \in Objects |-> FALSE]
    /\ disposed = [o \in Objects |-> FALSE]
    /\ last = [op |-> "none", arg |-> 0, pre |-> "Closed", ret |-> 0,
               log |-> <<>>, out |-> NoOut]

\* The data bytes an ECU answers the queries for engine speed (0x0C),
\* vehicle speed (0x0D) and throttle position (0x11) with: the byte b in
\* front, or one byte less than the decoder of the pid needs.
Bytes == 0..255
Sensors(b, short) ==
    IF short
    THEN (12 :> <<b>>) @@ (13 :> <<>>) @@ (17 :> <<>>)
    ELSE (12 :> <<b, 255 - b>>) @@ (13 :> <<b>>) @@ (17 :> <<b>>)
Idling == Sensors(26, FALSE)

Init == Loaded /\ hardened = FALSE /\ vehicle = Idling

\* Any vehicle.
InitAnyVehicle ==
    /\ Loaded
    /\ hardened = FALSE
    /\ vehicle \in {Sensors(b, FALSE) : b \in Bytes} \cup {Sensors(0, TRUE)}

\* Either build: where the adapter may send records that make the library
\* overrun a buffer, both outcomes of the overrun are followed.
InitAnyBuild == Loaded /\ hardened \in BOOLEAN /\ vehicle = Idling

Api_Init ==
    \E ok \in BOOLEAN :
        LET r == usb_can_init(Lib, ok)
        IN  Commit(r) /\ last' = Call("init", 0, r) /\ UNCHANGED <<callerVars, facadeVars>>

Api_Cleanup ==
    LET r == usb_can_cleanup(Lib)
    IN  Commit(r) /\ last' = Call("cleanup", 0, r) /\ UNCHANGED <<callerVars, facadeVars>>

Api_OpenDevice ==
    \E found \in {"list_error", "none", "opened"} :
        /\ found = "opened" => nextHandle <= MaxHandles
        /\ LET r == usb_can_open_device(Lib, found)
           IN  Commit(r) /\ last' = Call("open", 0, r) /\ UNCHANGED <<callerVars, facadeVars>>

Api_ConfigureDevice ==
    \E fail \in 0..5 :
        LET r == usb_can_configure_device(Lib, fail)
        IN  Commit(r) /\ last' = Call("configure", fail, r) /\ UNCHANGED <<callerVars, facadeVars>>

Api_GetDeviceInfo ==
    \E ok \in BOOLEAN :
        LET r == usb_can_get_device_info(Lib, ok)
        IN  Commit(r) /\ last' = Call("get_device_info", 0, r)
                      /\ UNCHANGED <<callerVars, facadeVars>>

Api_Identify ==
    \E enable \in {0, 1, 2}, ok \in BOOLEAN :
        LET r == usb_can_identify(Lib, enable, ok)
        IN  Commit(r) /\ last' = Call("identify", enable, r)
                      /\ UNCHANGED <<callerVars, facadeVars>>

Bitrates == {250000, 500000}

\* The adapter of the model: a 48 MHz clock, prescaler 1..1024 in steps of 1.
DeviceBtConst == BtConst(DeviceClock, 1, 1024, 1)

\* What the stack holds where bt_const is placed, when it does not matter.
NoStack == BtConst(0, 0, 0, 0)

Api_SetBitrate ==
    \E bitrate \in Bitrates, okRead \in BOOLEAN, okWrite \in BOOLEAN :
        LET r == usb_can_set_bitrate(Lib, bitrate, DeviceBtConst, NoStack,
                                     FALSE, 0, okRead, okWrite)
        IN  Commit(r) /\ last' = Call("set_bitrate", bitrate, r)
                      /\ UNCHANGED <<callerVars, facadeVars>>

\* Values of the parameter uint32_t bitrate: 0, usual CAN bitrates, a bitrate
\* too low and one too high for the prescaler, and 2^28 and 2^28 + 1, where
\* bitrate * 16 no longer fits 32 bits.
AnyBitrates ==
    {0, 1000, 250000, 500000, 1000000, 5000000, 268435456, 268435457}

\* Adapters: the one above, and one whose prescaler moves in steps of 2.
AnyBtConsts == {DeviceBtConst, BtConst(80000000, 2, 512, 2)}

\* usb_can_set_bitrate with any bitrate, on any adapter.
Api_SetBitrateAny ==
    \E bitrate \in AnyBitrates, bt_const \in AnyBtConsts, trap \in BOOLEAN,
       quotient \in {0, 65535}, okRead \in BOOLEAN, okWrite \in BOOLEAN :
        LET r == usb_can_set_bitrate(Lib, bitrate, bt_const, NoStack,
                                     trap, quotient, okRead, okWrite)
        IN  Commit(r) /\ last' = Call("set_bitrate", bitrate, r)
                      /\ UNCHANGED <<callerVars, facadeVars>>

\* Replies to the BT_CONST read that are shorter than gs_device_bt_const: no
\* byte at all, the feature word only, and all but the last word.
ShortBtConsts ==
    {ShortTransfer(DeviceBtConst, 0), ShortTransfer(DeviceBtConst, 4),
     ShortTransfer(DeviceBtConst, 36)}

\* What the stack may hold where bt_const is placed: zeroes, or the
\* bt_const of an earlier call on another adapter.
StackContents == {NoStack, BtConst(80000000, 2, 512, 2)}

\* usb_can_set_bitrate on an adapter that answers the BT_CONST read with
\* fewer bytes than asked for.
Api_SetBitrateShortRead ==
    \E bitrate \in Bitrates, reply \in ShortBtConsts,
       stack \in StackContents, okRead \in BOOLEAN, okWrite \in BOOLEAN :
        LET r == usb_can_set_bitrate(Lib, bitrate, reply, stack, FALSE, 0,
                                     okRead, okWrite)
        IN  Commit(r) /\ last' = Call("set_bitrate", bitrate, r)
                      /\ UNCHANGED <<callerVars, facadeVars>>

Api_Start ==
    \E enable_loopback \in {0, 1}, ok \in BOOLEAN :
        LET r == usb_can_start(Lib, enable_loopback, ok)
        IN  Commit(r) /\ last' = Call("start", enable_loopback, r)
                      /\ UNCHANGED <<callerVars, facadeVars>>

Api_Stop ==
    \E ok \in BOOLEAN :
        LET r == usb_can_stop(Lib, ok)
        IN  Commit(r) /\ last' = Call("stop", 0, r) /\ UNCHANGED <<callerVars, facadeVars>>

Api_SendFrame ==
    \E length \in {0, 8, 9}, ok \in BOOLEAN :
        LET r == usb_can_send_frame(Lib, OBD_REQUEST_ID, request_data(12), length, ok)
        IN  Commit(r) /\ last' = Call("send_frame", length, r)
                      /\ UNCHANGED <<callerVars, facadeVars>>

Api_ReceiveFrame ==
    \E ok \in BOOLEAN :
        LET r == usb_can_receive_frame(Lib, RxOut(0, Zero8, 0, 0), ok)
        IN  Commit(r) /\ last' = Call("receive_frame", 0, r)
                      /\ UNCHANGED <<callerVars, facadeVars>>

Api_PurgeRxQueue ==
    \E errAt \in 0..(Len(rxq) + 1) :
        LET r == usb_can_purge_rx_queue(Lib, errAt)
        IN  Commit(r) /\ last' = Call("purge_rx_queue", errAt, r)
                      /\ UNCHANGED <<callerVars, facadeVars>>

Api_ReadObdPid ==
    \E pid \in Pids, okSend \in BOOLEAN, okEcho \in BOOLEAN, okResp \in BOOLEAN :
        LET r == usb_can_read_obd_pid(Lib, pid, ObdOut(response_data, response_length),
                                      okSend, okEcho, okResp)
        IN  /\ Commit(r)
            /\ last' = Call("read_obd_pid", pid, r)
            /\ response_data' = r.out.response_data
            /\ response_length' = r.out.response_length
            /\ UNCHANGED facadeVars

\* usb_can_read_obd_pid with any value of its pid parameter.
Api_ReadObdPidAny ==
    \E pid \in AllPids, okSend \in BOOLEAN :
        LET r == usb_can_read_obd_pid(Lib, pid, ObdOut(response_data, response_length),
                                      okSend, TRUE, TRUE)
        IN  /\ Commit(r)
            /\ last' = Call("read_obd_pid", pid, r)
            /\ response_data' = r.out.response_data
            /\ response_length' = r.out.response_length
            /\ UNCHANGED facadeVars

\* The adapter, its CAN channel started, receives a frame from the bus (or
\* loops one back) and queues it for bulk-in.
DeviceDelivers ==
    \E f \in DeviceFrames :
        /\ started
        /\ ~crashed
        /\ Len(rxq) < MaxQueue
        /\ rxq' = Append(rxq, f)
        /\ last' = [op |-> "none", arg |-> 0, pre |-> SessionState(Lib),
                    ret |-> 0, log |-> <<>>, out |-> NoOut]
        /\ UNCHANGED <<is_initialized, usb_context, device_handle, nextHandle,
                       closeCount, configured, started, crashed, hardened,
                       vehicle,
                       callerVars, facadeVars>>

Next ==
    \/ Api_Init
    \/ Api_Cleanup
    \/ Api_OpenDevice
    \/ Api_ConfigureDevice
    \/ Api_GetDeviceInfo
    \/ Api_Identify
    \/ Api_SetBitrate
    \/ Api_Start
    \/ Api_Stop
    \/ Api_SendFrame
    \/ Api_ReceiveFrame
    \/ Api_PurgeRxQueue
    \/ DeviceDelivers

\* The session life cycle and frame I/O of the C core.
Spec == Init /\ [][Next]_vars

NextObd ==
    \/ Api_Init
    \/ Api_Cleanup
    \/ Api_OpenDevice
    \/ Api_ConfigureDevice
    \/ Api_Start
    \/ Api_Stop
    \/ Api_ReadObdPid
    \/ DeviceDelivers

\* What reaches the bulk-in queue while a query for pid is in progress: the
\* adapter's echo of the request and, unless the ECU is late, its answer.
PollArrivals(pid, late) ==
    IF late THEN <<EchoFrame(pid)>>
    ELSE <<EchoFrame(pid), ObdResponse(pid, vehicle[pid])>>

\* What reaches the queue after the query has returned: the late answer.
LateArrivals(pid, late) ==
    IF late THEN <<ObdResponse(pid, vehicle[pid])>> ELSE <<>>

\* One query of the polling loop of Program.Main on a started session, with
\* no transport error and no purge in between: the frames of the exchange
\* arrive behind whatever is still pending.
Api_PollObdPid ==
    \E pid \in Pids, late \in BOOLEAN :
        /\ started
        /\ LET asked == [Lib EXCEPT !.rxq = @ \o PollArrivals(pid, late)]
               q == usb_can_read_obd_pid(asked, pid,
                        ObdOut(response_data, response_length),
                        TRUE, TRUE, TRUE)
               r == [q EXCEPT !.s.rxq = @ \o LateArrivals(pid, late)]
           IN  /\ Commit(r)
               /\ last' = Call("read_obd_pid", [pid |-> pid, late |-> late], r)
               /\ response_data' = r.out.response_data
               /\ response_length' = r.out.response_length
               /\ UNCHANGED facadeVars

NextPolling ==
    \/ Api_Init
    \/ Api_OpenDevice
    \/ Api_ConfigureDevice
    \/ Api_Start
    \/ Api_PollObdPid

\* Repeated queries on one session, where an answer may come late.
SpecPolling == Init /\ [][NextPolling]_vars

NextLifetime ==
    \/ Api_Init
    \/ Api_Cleanup
    \/ Api_OpenDevice
    \/ Api_ConfigureDevice
    \/ Api_GetDeviceInfo
    \/ Api_Identify
    \/ Api_SetBitrate
    \/ Api_Start
    \/ Api_Stop
    \/ Api_SendFrame
    \/ Api_ReceiveFrame
    \/ Api_PurgeRxQueue
    \/ Api_ReadObdPid
    \/ DeviceDelivers

\* Every exported function of the C core, in any order.
SpecLifetime == Init /\ [][NextLifetime]_vars

\* The OBD-II query on top of the session life cycle.
SpecObd == Init /\ [][NextObd]_vars

\* What the adapter may put on bulk-in besides whole records: a zero-length
\* packet and the first 12 bytes of a record.
ShortTransfers ==
    {ShortTransfer(RpmResponse, 0), ShortTransfer(RpmResponse, 12)}

DeviceDeliversShort ==
    \E x \in ShortTransfers :
        /\ started
        /\ ~crashed
        /\ Len(rxq) < MaxQueue
        /\ rxq' = Append(rxq, x)
        /\ last' = [op |-> "none", arg |-> 0, pre |-> SessionState(Lib),
                    ret |-> 0, log |-> <<>>, out |-> NoOut]
        /\ UNCHANGED <<is_initialized, usb_context, device_handle, nextHandle,
                       closeCount, configured, started, crashed, hardened,
                       vehicle,
                       callerVars, facadeVars>>

\* The adapter sends a whole record whose can_dlc is above 8.
DeviceDeliversLong ==
    \E x \in {LongResponse, LongestFrame} :
        /\ started
        /\ ~crashed
        /\ Len(rxq) < MaxQueue
        /\ rxq' = Append(rxq, x)
        /\ last' = [op |-> "none", arg |-> 0, pre |-> SessionState(Lib),
                    ret |-> 0, log |-> <<>>, out |-> NoOut]
        /\ UNCHANGED <<is_initialized, usb_context, device_handle, nextHandle,
                       closeCount, configured, started, crashed, hardened,
                       vehicle,
                       callerVars, facadeVars>>

\* Arguments of usb_can_send_frame: a standard and an extended identifier,
\* no buffer or a buffer of 8 bytes, lengths up to 8 and above.
SendIds == {291, 2015}
SendBuffers == {NoBuffer, <<17, 34, 51, 68, 85, 102, 119, 136>>}
SendLengths == {0, 1, 8, 9, 255}

Api_SendFrameAny ==
    \E can_id \in SendIds, data \in SendBuffers, length \in SendLengths,
       ok \in BOOLEAN :
        LET r == usb_can_send_frame(Lib, can_id, data, length, ok)
        IN  Commit(r)
            /\ last' = Call("send_frame",
                            [can_id |-> can_id, data |-> data, length |-> length], r)
            /\ UNCHANGED <<callerVars, facadeVars>>

NextIo ==
    \/ Api_Init
    \/ Api_OpenDevice
    \/ Api_ConfigureDevice
    \/ Api_Start
    \/ Api_SendFrameAny
    \/ Api_ReceiveFrame
    \/ Api_PurgeRxQueue
    \/ DeviceDelivers
    \/ DeviceDeliversShort

\* Frame I/O with an adapter that may send short packets.
SpecIo == Init /\ [][NextIo]_vars

NextOverrun ==
    \/ Api_Init
    \/ Api_OpenDevice
    \/ Api_Start
    \/ Api_ReceiveFrame
    \/ Api_ReadObdPid
    \/ DeviceDelivers
    \/ DeviceDeliversLong

\* Receiving from an adapter that may send a can_dlc above 8, on either build.
SpecOverrun == InitAnyBuild /\ [][NextOverrun]_vars

NextBitrate ==
    \/ Api_Init
    \/ Api_OpenDevice
    \/ Api_ConfigureDevice
    \/ Api_Start
    \/ Api_Stop
    \/ Api_SetBitrateAny

\* Bit timing: usb_can_set_bitrate over the range of its inputs.
SpecBitrate == Init /\ [][NextBitrate]_vars

NextBitrateRead ==
    \/ Api_Init
    \/ Api_OpenDevice
    \/ Api_ConfigureDevice
    \/ Api_Start
    \/ Api_Stop
    \/ Api_SetBitrate
    \/ Api_SetBitrateShortRead

\* Setting the bitrate on adapters that answer the BT_CONST read in full or
\* in part.
SpecBitrateRead == Init /\ [][NextBitrateRead]_vars

NextRequest ==
    \/ Api_Init
    \/ Api_Cleanup
    \/ Api_OpenDevice
    \/ Api_ReadObdPidAny

\* The request of the OBD-II query, for every pid.
SpecRequest == Init /\ [][NextRequest]_vars

\* ------------------------------------------------ UsbCanDevice facade
\* The result of a facade method: the library state it leaves, the value it
\* returns, the libusb calls issued on its behalf, IsConnected as it leaves
\* it, and what it got back from the native call.
F(s, ret, log, conn, out) ==
    [s |-> s, ret |-> ret, log |-> log, conn |-> conn, out |-> out]

\* A managed bool.
Bool(b) == IF b THEN 1 ELSE 0

\* A managed byte[]: null, or an array (possibly of length 0).
Null == [null |-> TRUE, bytes |-> <<>>]
Array(bytes) == [null |-> FALSE, bytes |-> bytes]

Connect(s, conn, found, fail, okInfo) ==
    IF conn THEN F(s, Bool(TRUE), <<>>, conn, NoOut)
    ELSE
    LET open == usb_can_open_device(s, found)
    IN  IF open.ret < 0 THEN F(open.s, Bool(FALSE), open.log, conn, NoOut)
        ELSE
        LET cfg == usb_can_configure_device(open.s, fail)
        IN  IF cfg.ret < 0
            THEN F(cfg.s, Bool(FALSE), open.log \o cfg.log, conn, NoOut)
            ELSE
            LET info == usb_can_get_device_info(cfg.s, okInfo)
                log == open.log \o cfg.log \o info.log
            IN  IF info.ret < 0 THEN F(info.s, Bool(FALSE), log, conn, NoOut)
                ELSE F(info.s, Bool(TRUE), log, TRUE, NoOut)

Disconnect(s, conn, okStop) ==
    IF conn
    THEN LET r == usb_can_stop(s, okStop)
         IN  F(r.s, 0, r.log, FALSE, NoOut)
    ELSE F(s, 0, <<>>, conn, NoOut)

StartCan(s, conn, enableLoopback, ok) ==
    IF ~conn THEN F(s, Bool(FALSE), <<>>, conn, NoOut)
    ELSE LET r == usb_can_start(s, IF enableLoopback THEN 1 ELSE 0, ok)
         IN  F(r.s, Bool(r.ret >= 0), r.log, conn, NoOut)

StopCan(s, conn, ok) ==
    IF ~conn THEN F(s, Bool(FALSE), <<>>, conn, NoOut)
    ELSE LET r == usb_can_stop(s, ok)
         IN  F(r.s, Bool(r.ret >= 0), r.log, conn, NoOut)

\* What ReadObdPid got from usb_can_read_obd_pid: whether it was called, its
\* result, and responseData / responseLength after the call.
Native(called, result, buffers) ==
    [called |-> called, result |-> result, buffers |-> buffers]

\* byte[] responseData = new byte[8]; byte responseLength;
FreshBuffers == ObdOut(Zero8, 0)

\* The tail of ReadObdPid: the response bytes when the native call
\* succeeded, else null.
ReadObdPidResult(r, conn) ==
    IF r.ret >= 0
    THEN F(r.s, Array(SubSeq(r.out.response_data, 1, r.out.response_length)),
           r.log, conn, Native(TRUE, r.ret, r.out))
    ELSE F(r.s, Null, r.log, conn, Native(TRUE, r.ret, r.out))

\* Returns the response bytes, or null.
ReadObdPid(s, conn, pid, okSend, okEcho, okResp) ==
    IF ~conn THEN F(s, Null, <<>>, conn, Native(FALSE, 0, FreshBuffers))
    ELSE ReadObdPidResult(
             usb_can_read_obd_pid(s, pid, FreshBuffers, okSend, okEcho, okResp),
             conn)

\* The tail of GetEngineRpm.  The float it returns is kept in units of
\* 1/4 rpm: (b0 * 256 + b1) / 4.0 is b0 * 256 + b1 quarters, and the failure
\* value -1 is -4 quarters.
EngineRpmOf(data) ==
    IF ~data.null /\ Len(data.bytes) >= 2
    THEN data.bytes[1] * 256 + data.bytes[2]
    ELSE -4

\* The tail of GetVehicleSpeed.
VehicleSpeedOf(data) ==
    IF ~data.null /\ Len(data.bytes) >= 1 THEN data.bytes[1] ELSE -1

GetEngineRpm(s, conn, okSend, okEcho, okResp) ==
    LET q == ReadObdPid(s, conn, 12, okSend, okEcho, okResp)
    IN  [q EXCEPT !.ret = EngineRpmOf(q.ret)]

GetVehicleSpeed(s, conn, okSend, okEcho, okResp) ==
    LET q == ReadObdPid(s, conn, 13, okSend, okEcho, okResp)
    IN  [q EXCEPT !.ret = VehicleSpeedOf(q.ret)]

\* GetThrottlePosition with the scale of a byte taken to be 256.
ThrottlePositionOf_divides_by_256(data) ==
    IF ~data.null /\ Len(data.bytes) >= 1
    THEN (data.bytes[1] * 100) \div 256
    ELSE -1

\* The tail of GetThrottlePosition.
ThrottlePositionOf(data) ==
    IF ~data.null /\ Len(data.bytes) >= 1
    THEN (data.bytes[1] * 100) \div 255
    ELSE -1

GetThrottlePosition(s, conn, okSend, okEcho, okResp) ==
    LET q == ReadObdPid(s, conn, 17, okSend, okEcho, okResp)
    IN  [q EXCEPT !.ret = ThrottlePositionOf(q.ret)]

\* Dispose(true): Disconnect, then usb_can_cleanup, once per object.
Dispose(s, conn, isDisposed, okStop) ==
    IF isDisposed THEN F(s, 0, <<>>, conn, NoOut)
    ELSE LET d == Disconnect(s, conn, okStop)
             c == usb_can_cleanup(d.s)
         IN  F(c.s, 0, d.log \o c.log, d.conn, NoOut)

\* Answers to the supported-PID queries 0x00 and 0x20: four bitmask bytes
\* after the three header bytes.
SupportedResponse(baseId, mask) ==
    Frame(2024, 7, <<6, 65, baseId, mask[1], mask[2], mask[3], mask[4], 0>>, 0)
AllSupported == <<255, 255, 255, 255>>
EdgesSupported == <<128, 0, 0, 1>>

\* (data[i / 8] & (0x80 >> (i & 7))) != 0
SupportedBit(data, i) == (data[(i \div 8) + 1] \div (2 ^ (7 - (i % 8)))) % 2 = 1

\* The inner loop of GetSupportedPids: baseId + i for every set bit i, in
\* increasing order of i.
SupportedIn(baseId, data) ==
    LET candidates == [k \in 1..32 |-> baseId + (k - 1)]
    IN  SelectSeq(candidates, LAMBDA p : SupportedBit(data, p - baseId))

\* What the vehicle puts on the bus while a query for baseId is in
\* progress: the adapter's echo of the request and the ECU's answer, when
\* the ECU answers that base.
ScanArrivals(baseId, answers) ==
    IF baseId \in DOMAIN answers
    THEN <<EchoFrame(baseId), SupportedResponse(baseId, answers[baseId])>>
    ELSE <<>>

\* The outer loop of GetSupportedPids from baseId on:
\* for (int baseId = 0; baseId < 96; baseId += 32).
RECURSIVE supported_pids_loop(_, _, _, _, _)
supported_pids_loop(s, conn, baseId, acc, answers) ==
    IF ~(baseId < 96) THEN F(s, acc.pids, acc.log, conn, NoOut)
    ELSE
    LET arrived == IF conn /\ s.started
                   THEN [s EXCEPT !.rxq = @ \o ScanArrivals(baseId, answers)]
                   ELSE s
        q == ReadObdPid(arrived, conn, baseId, TRUE, TRUE, TRUE)
        found == IF ~q.ret.null /\ Len(q.ret.bytes) >= 4
                 THEN SupportedIn(baseId, q.ret.bytes)
                 ELSE <<>>
    IN  supported_pids_loop(q.s, conn, baseId + 32,
                            [pids |-> acc.pids \o found,
                             log |-> acc.log \o q.log], answers)

\* Returns the list of supported PIDs.
GetSupportedPids(s, conn, answers) ==
    supported_pids_loop(s, conn, 0, [pids |-> <<>>, log |-> <<>>], answers)

\* What `last` keeps of a facade call, and the state the call leaves.
FacadeCall(op, o, r) ==
    [op |-> op, arg |-> o, pre |-> SessionState(Lib), ret |-> r.ret,
     log |-> r.log, out |-> r.out]

FacadeCommit(op, o, r) ==
    /\ Commit(r)
    /\ IsConnected' = [IsConnected EXCEPT ![o] = r.conn]
    /\ last' = FacadeCall(op, o, r)
    /\ UNCHANGED callerVars

\* new UsbCanDevice(): usb_can_init, and an exception when it fails.
Facade_New(o) ==
    /\ ~constructed[o]
    /\ \E ok \in BOOLEAN :
        LET r == usb_can_init(Lib, ok)
        IN  /\ Commit(r)
            /\ constructed' = [constructed EXCEPT ![o] = (r.ret >= 0)]
            /\ last' = Call("new", o, r)
            /\ UNCHANGED <<callerVars, IsConnected, disposed>>

Facade_Connect(o) ==
    /\ constructed[o]
    /\ \E found \in {"none", "opened"}, fail \in {0, 3, 5}, okInfo \in BOOLEAN :
        /\ found = "opened" => nextHandle <= MaxHandles
        /\ LET r == Connect(Lib, IsConnected[o], found, fail, okInfo)
           IN  FacadeCommit("Connect", o, r)
        /\ UNCHANGED <<constructed, disposed>>

Facade_Disconnect(o) ==
    /\ constructed[o]
    /\ \E okStop \in BOOLEAN :
        /\ LET r == Disconnect(Lib, IsConnected[o], okStop)
           IN  FacadeCommit("Disconnect", o, r)
        /\ UNCHANGED <<constructed, disposed>>

Facade_StartCan(o) ==
    /\ constructed[o]
    /\ \E enableLoopback \in BOOLEAN, ok \in BOOLEAN :
        /\ LET r == StartCan(Lib, IsConnected[o], enableLoopback, ok)
           IN  FacadeCommit("StartCan", o, r)
        /\ UNCHANGED <<constructed, disposed>>

Facade_StopCan(o) ==
    /\ constructed[o]
    /\ \E ok \in BOOLEAN :
        /\ LET r == StopCan(Lib, IsConnected[o], ok)
           IN  FacadeCommit("StopCan", o, r)
        /\ UNCHANGED <<constructed, disposed>>

Facade_GetEngineRpm(o) ==
    /\ constructed[o]
    /\ \E okSend \in BOOLEAN, okEcho \in BOOLEAN, okResp \in BOOLEAN :
        /\ LET r == GetEngineRpm(Lib, IsConnected[o], okSend, okEcho, okResp)
           IN  FacadeCommit("GetEngineRpm", o, r)
        /\ UNCHANGED <<constructed, disposed>>

Facade_GetVehicleSpeed(o) ==
    /\ constructed[o]
    /\ \E okSend \in BOOLEAN, okEcho \in BOOLEAN, okResp \in BOOLEAN :
        /\ LET r == GetVehicleSpeed(Lib, IsConnected[o], okSend, okEcho, okResp)
           IN  FacadeCommit("GetVehicleSpeed", o, r)
        /\ UNCHANGED <<constructed, disposed>>

Facade_Dispose(o) ==
    /\ constructed[o]
    /\ \E okStop \in BOOLEAN :
        /\ LET r == Dispose(Lib, IsConnected[o], disposed[o], okStop)
           IN  FacadeCommit("Dispose", o, r)
        /\ disposed' = [disposed EXCEPT ![o] = TRUE]
        /\ UNCHANGED constructed

NextFacade ==
    \/ \E o \in Objects : Facade_New(o)
    \/ \E o \in Objects : Facade_Connect(o)
    \/ \E o \in Objects : Facade_Disconnect(o)
    \/ \E o \in Objects : Facade_StartCan(o)
    \/ \E o \in Objects : Facade_StopCan(o)
    \/ \E o \in Objects : Facade_GetEngineRpm(o)
    \/ \E o \in Objects : Facade_GetVehicleSpeed(o)
    \/ \E o \in Objects : Facade_Dispose(o)
    \/ DeviceDelivers

\* A managed process that uses the library through UsbCanDevice objects.
SpecFacade == Init /\ [][NextFacade]_vars

Facade_GetThrottlePosition(o) ==
    /\ constructed[o]
    /\ \E okSend \in BOOLEAN, okEcho \in BOOLEAN, okResp \in BOOLEAN :
        /\ LET r == GetThrottlePosition(Lib, IsConnected[o],
                                        okSend, okEcho, okResp)
           IN  FacadeCommit("GetThrottlePosition", o, r)
        /\ UNCHANGED <<constructed, disposed>>

\* The adapter echoes a request and the ECU answers it, on an idle bus.
VehicleAnswers ==
    \E pid \in DOMAIN vehicle :
        /\ started
        /\ ~crashed
        /\ rxq = <<>>
        /\ rxq' = <<EchoFrame(pid), ObdResponse(pid, vehicle[pid])>>
        /\ last' = [op |-> "none", arg |-> 0, pre |-> SessionState(Lib),
                    ret |-> 0, log |-> <<>>, out |-> NoOut]
        /\ UNCHANGED <<is_initialized, usb_context, device_handle, nextHandle,
                       closeCount, configured, started, crashed, hardened,
                       vehicle, callerVars, facadeVars>>

NextDecoders ==
    \/ Facade_New(1)
    \/ Facade_Connect(1)
    \/ Facade_StartCan(1)
    \/ Facade_GetEngineRpm(1)
    \/ Facade_GetVehicleSpeed(1)
    \/ Facade_GetThrottlePosition(1)
    \/ VehicleAnswers

\* A managed process that reads the typed values of a vehicle through one
\* UsbCanDevice, for every vehicle.
SpecDecoders == InitAnyVehicle /\ [][NextDecoders]_vars

\* The bitmasks the ECU may answer with, per base PID it answers.
ScanAnswers ==
    {<<>>,
     (0 :> AllSupported),
     (0 :> EdgesSupported),
     (32 :> AllSupported),
     (0 :> AllSupported) @@ (32 :> EdgesSupported),
     (0 :> EdgesSupported) @@ (32 :> AllSupported) @@ (64 :> EdgesSupported)}

Facade_GetSupportedPids(o) ==
    /\ constructed[o]
    /\ \E answers \in ScanAnswers :
        /\ LET r == GetSupportedPids(Lib, IsConnected[o], answers)
           IN  FacadeCommit("GetSupportedPids", o, r)
        /\ UNCHANGED <<constructed, disposed>>

NextScan ==
    \/ \E o \in Objects : Facade_New(o)
    \/ \E o \in Objects : Facade_Connect(o)
    \/ \E o \in Objects : Facade_StartCan(o)
    \/ \E o \in Objects : Facade_StopCan(o)
    \/ \E o \in Objects : Facade_GetSupportedPids(o)

\* A managed process that scans the vehicle for its supported PIDs.
SpecScan == Init /\ [][NextScan]_vars

\* ------------------------------------------------------------- claims
\* Events of a call's log.
IsBulk(e) == e.call \in {"bulk_out", "bulk_in"}
IsControl(e) == e.call \in {"control_out", "control_in"}
IssuedBulk(log) == \E i \in 1..Len(log) : IsBulk(log[i])

\* Handles libusb_open has returned so far.
Opened == 1..(nextHandle - 1)

\* C1: in every session state other than Running, send_frame, receive_frame
\* and purge_rx_queue fail and issue no bulk transfer.
C1_FrameIoOnlyWhenRunning ==
    (last.op \in {"send_frame", "receive_frame", "purge_rx_queue"}
        /\ last.pre # "Running")
    => (last.ret < 0 /\ ~IssuedBulk(last.log))

\* C2: set_bitrate invoked while Running is rejected and issues neither the
\* bit-timing-constants read nor the bit-timing write.
C2_SetBitrateRejectedWhenRunning ==
    (last.op = "set_bitrate" /\ last.pre = "Running")
    => (last.ret < 0 /\ last.log = <<>>)

\* C3: stop invoked in Configured succeeds and leaves the session Configured;
\* stop invoked in Running leaves the session Configured.
C3_StopIdempotent ==
    /\ (last.op = "stop" /\ last.pre = "Configured")
       => (last.ret >= 0 /\ SessionState(Lib) = "Configured")
    /\ (last.op = "stop" /\ last.pre = "Running")
       => SessionState(Lib) = "Configured"

\* C4: every handle acquired by open is released exactly once: none is
\* released twice, and none is still open after close returns.
C4_HandlesReleasedExactlyOnce ==
    /\ \A h \in Opened : closeCount[h] <= 1
    /\ last.op = "cleanup" => \A h \in Opened : closeCount[h] = 1

\* C5: close on an already closed session releases no handle and no context
\* and leaves the session Closed; close;close is equivalent to close.
C5_CloseIdempotent ==
    [][(last'.op = "cleanup"
          /\ (last.op = "cleanup"
              \/ (device_handle = NULL /\ usb_context = NULL)))
       => (/\ last'.log = <<>>
           /\ last'.ret = 0
           /\ Lib' = Lib
           /\ SessionState(Lib') = "Closed"
           /\ ~is_initialized')]_vars

\* A second close, after a session that held a handle: nothing left to release.
C5_Witness ==
    /\ last.op = "cleanup"
    /\ last.log = <<>>
    /\ nextHandle > 1
    /\ \A h \in Opened : closeCount[h] = 1

C7_HostFormatFirst ==
    \A i \in 1..Len(last.log) :
        (IsControl(last.log[i]) /\ last.log[i].req # "HOST_FORMAT")
        => last.pre \in {"Configured", "Running"}

\* The frame a successful bulk-in delivered.
Delivered(e) == e.payload

\* The send and both receives of a query succeeded.
ExchangeComplete(log) ==
    Len(log) = 3 /\ log[1].ok /\ log[2].ok /\ log[3].ok

\* C8: query(pid) succeeds exactly when the send and both receives succeed
\* and the second frame has length >= 3, byte 1 = 0x41 and byte 2 = pid; the
\* value returned is bytes 3..length-1 of that frame.  For echo then
\* [0x04,0x41,0x0C,0x1A,0xF8], query(0x0C) returns [0x1A,0xF8].
C8_QueryValidation ==
    last.op = "read_obd_pid" =>
        LET log == last.log
            good == /\ ExchangeComplete(log)
                    /\ Delivered(log[3]).can_dlc >= 3
                    /\ Delivered(log[3]).data[2] = 65
                    /\ Delivered(log[3]).data[3] = last.arg
        IN  /\ (last.ret = 0) <=> good
            /\ ~good => last.ret < 0
            /\ good =>
                 /\ response_length = Delivered(log[3]).can_dlc - 3
                 /\ \A i \in 1..response_length :
                        response_data[i] = Delivered(log[3]).data[i + 3]
            /\ (/\ ExchangeComplete(log)
                /\ last.arg = 12
                /\ Delivered(log[2]) = EchoFrame(12)
                /\ Delivered(log[3]).can_dlc = 5
                /\ SubSeq(Delivered(log[3]).data, 1, 5) = <<4, 65, 12, 26, 248>>)
               => (/\ last.ret = 0
                   /\ response_length = 2
                   /\ SubSeq(response_data, 1, 2) = <<26, 248>>)

\* query(0x0C) has returned [0x1A, 0xF8] after the echo and the answer.
C8_Witness ==
    /\ last.op = "read_obd_pid"
    /\ last.arg = 12
    /\ last.ret = 0
    /\ ExchangeComplete(last.log)
    /\ Delivered(last.log[2]) = EchoFrame(12)
    /\ response_length = 2
    /\ SubSeq(response_data, 1, 2) = <<26, 248>>

\* Number of successful bulk-in transfers of a call.
RECURSIVE Received(_)
Received(log) ==
    IF log = <<>> THEN 0
    ELSE (IF Head(log).call = "bulk_in" /\ Head(log).ok THEN 1 ELSE 0)
         + Received(Tail(log))

\* C9: query is a fixed-depth exchange without retries: one bulk-out, then
\* at most two bulk-in; a failed send causes no receive, a failed first
\* receive no second one; exactly the frames received leave the queue, never
\* one beyond the second; the first frame decides nothing: whatever it is,
\* the outcome is that of the second frame.
C9_FixedDepthExchange ==
    [][(last'.op = "read_obd_pid" /\ device_handle # NULL)
       => LET log == last'.log
          IN  /\ Len(log) \in 1..3
              /\ log[1].call = "bulk_out"
              /\ \A i \in 2..Len(log) : log[i].call = "bulk_in"
              /\ Len(log) = 1 <=> ~log[1].ok
              /\ Len(log) = 2 <=> (log[1].ok /\ ~log[2].ok)
              /\ Len(log) = 3 <=> (log[1].ok /\ log[2].ok)
              /\ Received(log) <= 2
              /\ Received(log) <= Len(rxq)
              /\ rxq' = SubSeq(rxq, Received(log) + 1, Len(rxq))
              /\ ExchangeComplete(log)
                 => /\ Delivered(log[2]) = rxq[1]
                    /\ Delivered(log[3]) = rxq[2]
                    /\ (last'.ret = 0)
                       = (/\ rxq[2].can_dlc >= 3
                          /\ rxq[2].data[2] = 65
                          /\ rxq[2].data[3] = last'.arg)
                    /\ last'.ret = 0
                       => response_data'
                          = memcpy(response_data,
                                   SubSeq(rxq[2].data, 4, 8), rxq[2].can_dlc - 3)]_vars

\* A query whose first frame was not the echo of its request, and whose
\* second frame was accepted as the answer.
C9_Witness ==
    /\ last.op = "read_obd_pid"
    /\ ExchangeComplete(last.log)
    /\ Delivered(last.log[2]) # EchoFrame(last.arg)
    /\ last.ret = 0
    /\ rxq = <<>>

\* The native query of a decoder call was well answered: the exchange was
\* complete and its second frame is a positive response to pid.
WellAnswered(log, pid) ==
    /\ ExchangeComplete(log)
    /\ Delivered(log[3]).can_dlc >= 3
    /\ Delivered(log[3]).data[2] = 65
    /\ Delivered(log[3]).data[3] = pid

DecoderPid(op) == IF op = "GetEngineRpm" THEN 12 ELSE 13
DecoderFailure(op) == IF op = "GetEngineRpm" THEN -4 ELSE -1

\* C10: a query that fails at any step (send, first or second receive, or a
\* second frame that is short, not a positive response or for another pid)
\* reports a failure, leaves the response buffer and length as they were, and
\* the typed decoder built on it reports its failure value.
C10_FailedQueryReturnsNothing ==
    (last.op \in {"GetEngineRpm", "GetVehicleSpeed"} /\ last.out.called
        /\ ~WellAnswered(last.log, DecoderPid(last.op)))
    => /\ last.out.result < 0
       /\ last.out.buffers = FreshBuffers
       /\ last.ret = DecoderFailure(last.op)

\* The RPM decoder has failed on a negative response (byte 1 is 0x7F).
C10_Witness ==
    /\ last.op = "GetEngineRpm"
    /\ last.out.called
    /\ ExchangeComplete(last.log)
    /\ Delivered(last.log[3]) = NegativeResponse
    /\ last.ret = -4

\* C11: for every pid in 0..255 the frame query(pid) hands to bulk-out has
\* can_id 0x7DF, dlc 8 and data [2, 1, pid, 0x55, 0x55, 0x55, 0x55, 0x55];
\* a query on an open handle does hand one over.
C11_RequestFrame ==
    last.op = "read_obd_pid" =>
        /\ last.pre # "Closed" => Len(last.log) >= 1
        /\ Len(last.log) >= 1 =>
              /\ last.log[1].call = "bulk_out"
              /\ last.log[1].payload.can_id = 2015
              /\ last.log[1].payload.can_dlc = 8
              /\ last.log[1].payload.data
                   = <<2, 1, last.arg, 85, 85, 85, 85, 85>>
              /\ \A i \in 2..Len(last.log) : last.log[i].call # "bulk_out"

\* The request for the largest pid went out.
C11_Witness ==
    /\ last.op = "read_obd_pid"
    /\ last.arg = 255
    /\ Len(last.log) >= 1
    /\ last.log[1].ok
    /\ last.log[1].payload.data[3] = 255

\* The bit-timing write of a set_bitrate call, if it made one.
WroteBitTiming(log) == Len(log) = 2 /\ log[2].req = "BITTIMING"

\* C12: for every bitrate > 0 and every reported clock, the Bit-Timing record
\* written has prop_seg 0, phase_seg1 13, phase_seg2 2, sjw 1 and
\* brp = floor(clock / (bitrate * 16)) with the product not wrapped.
C12_BitTimingPolicy ==
    (last.op = "set_bitrate" /\ last.arg > 0 /\ WroteBitTiming(last.log))
    => LET clock == last.log[1].payload.fclk_can
           timing == last.log[2].payload
       IN  /\ timing.prop_seg = 0
           /\ timing.phase_seg1 = 13
           /\ timing.phase_seg2 = 2
           /\ timing.sjw = 1
           /\ timing.brp = (clock \div 16) \div last.arg

\* C13: set_bitrate(0) returns an error value and issues no bit-timing write.
C13_ZeroBitrateRejected ==
    (last.op = "set_bitrate" /\ last.arg = 0 /\ last.pre # "Closed")
    => /\ ~crashed
       /\ last.ret < 0
       /\ ~WroteBitTiming(last.log)

\* C14: set_bitrate never writes a brp below brp_min, above brp_max or off
\* the brp_inc grid.
C14_PrescalerWithinLimits ==
    (last.op = "set_bitrate" /\ WroteBitTiming(last.log))
    => LET limits == last.log[1].payload
           written == last.log[2].payload.brp
       IN  /\ written >= limits.brp_min
           /\ written <= limits.brp_max
           /\ (written - limits.brp_min) % limits.brp_inc = 0

\* C15: start(loopback) writes one Mode record with mode = 1 and flags = 0x10
\* without loop-back, 0x12 with it; from Configured the session becomes
\* Running if the transfer succeeds and stays Configured if it fails.
C15_StartModeFlags ==
    (last.op = "start" /\ last.pre # "Closed")
    => /\ Len(last.log) = 1
       /\ last.log[1].call = "control_out"
       /\ last.log[1].req = "MODE"
       /\ last.log[1].payload.mode = 1
       /\ last.log[1].payload.flags = (IF last.arg = 0 THEN 16 ELSE 18)
       /\ (last.ret >= 0) = last.log[1].ok
       /\ last.pre = "Configured" =>
              SessionState(Lib) = (IF last.ret >= 0 THEN "Running" ELSE "Configured")

\* A start with loop-back was accepted in Configured.
C15_Witness ==
    /\ last.op = "start"
    /\ last.pre = "Configured"
    /\ last.arg = 1
    /\ last.ret >= 0
    /\ last.log[1].payload.flags = 18
    /\ SessionState(Lib) = "Running"

\* C16: send_frame with length > 8 or without a buffer fails and issues no
\* bulk-out; with length 0..8 it issues exactly one bulk-out of a record with
\* the given can_id, can_dlc = length, the caller's first `length` bytes and
\* zero everywhere else, and returns the number of bytes transferred.
C16_SendFrameEncoding ==
    (last.op = "send_frame" /\ last.pre # "Closed")
    => IF last.arg.length > 8 \/ last.arg.data = <<>>
       THEN last.ret < 0 /\ last.log = <<>>
       ELSE /\ Len(last.log) = 1
            /\ last.log[1].call = "bulk_out"
            /\ last.log[1].payload =
                  [echo_id |-> 0, can_id |-> last.arg.can_id,
                   can_dlc |-> last.arg.length, channel |-> 0, flags |-> 0,
                   reserved |-> 0,
                   data |-> [i \in 1..8 |-> IF i <= last.arg.length
                                            THEN last.arg.data[i] ELSE 0],
                   timestamp_us |-> 0]
            /\ last.log[1].ok => last.ret = 24
            /\ ~last.log[1].ok => last.ret < 0

\* A frame of one data byte was sent: the other seven bytes of the record
\* are zero.
C16_Witness ==
    /\ last.op = "send_frame"
    /\ last.arg.length = 1
    /\ last.ret = 24
    /\ last.log[1].payload.data = <<17, 0, 0, 0, 0, 0, 0, 0>>

\* C17: receive_frame fails whenever the bulk-in transfer delivers a byte
\* count other than the 24 bytes of the frame record.
C17_ShortTransferRejected ==
    (last.op = "receive_frame"
        /\ Len(last.log) = 1
        /\ last.log[1].ok
        /\ Transferred(last.log[1].payload) # 24)
    => last.ret < 0

\* C18: whatever can_dlc the adapter sends, a frame returned by receive_frame
\* has length <= 8 and no more than 8 bytes are copied into the caller's
\* buffer (the copy is of `length` bytes, and an overrun may end the
\* process); a successful query returns a response length in 0..5.
C18_LengthAtMostEight ==
    /\ last.op \in {"receive_frame", "read_obd_pid"} => ~crashed
    /\ (last.op = "receive_frame" /\ last.ret >= 0) => last.out.length <= 8
    /\ (last.op = "read_obd_pid" /\ last.ret >= 0)
       => last.out.response_length \in 0..5

\* C19: purge_rx_queue with n transfers pending and no transport error makes
\* n successful receives, in queue order, then one receive that reports no
\* data, and returns n with the queue empty; with nothing pending it
\* returns 0.
C19_PurgeDrainsQueue ==
    [][(last'.op = "purge_rx_queue" /\ last'.pre # "Closed" /\ last'.arg = 0)
       => LET n == Len(rxq)
              log == last'.log
          IN  /\ Len(log) = n + 1
              /\ \A i \in 1..n :
                     /\ log[i].call = "bulk_in"
                     /\ log[i].ok
                     /\ log[i].payload = rxq[i]
              /\ log[n + 1].call = "bulk_in"
              /\ ~log[n + 1].ok
              /\ log[n + 1].payload = -7
              /\ last'.ret = n
              /\ rxq' = <<>>]_vars

\* A purge of two pending transfers has returned 2 after three receives.
C19_Witness ==
    /\ last.op = "purge_rx_queue"
    /\ last.arg = 0
    /\ last.ret = 2
    /\ Len(last.log) = 3
    /\ rxq = <<>>

\* C20: when a receive attempt of purge_rx_queue fails with a transport
\* error other than the timeout, purge_rx_queue returns a negative code.
C20_PurgePropagatesErrors ==
    (last.op = "purge_rx_queue"
        /\ \E i \in 1..Len(last.log) :
               ~last.log[i].ok /\ last.log[i].payload # -7)
    => last.ret < 0

\* The base PIDs a scan asked for, in the order of its requests.
RECURSIVE RequestedPids(_)
RequestedPids(log) ==
    IF log = <<>> THEN <<>>
    ELSE IF Head(log).call = "bulk_out"
         THEN <<Head(log).payload.data[3]>> \o RequestedPids(Tail(log))
         ELSE RequestedPids(Tail(log))

\* The frame a scan received as the answer to its k-th request.
AnswerTo(log, k) == log[3 * k]

\* C21: a supported-PID scan by a connected object queries the base PIDs
\* 0x00, 0x20, 0x40, 0x60, 0x80 and 0xA0 in that order, and it reports every
\* PID 0..31 as supported when base 0x00 is answered with FF FF FF FF.
C21_ScanQueriesSixBases ==
    (last.op = "GetSupportedPids" /\ last.log # <<>>) =>
        /\ RequestedPids(last.log) = <<0, 32, 64, 96, 128, 160>>
        /\ (/\ Len(last.log) >= 3
            /\ AnswerTo(last.log, 1).ok
            /\ AnswerTo(last.log, 1).payload = SupportedResponse(0, AllSupported))
           => \A p \in 0..31 : \E i \in 1..Len(last.ret) : last.ret[i] = p

\* The pid a typed decoder asks for.
TypedPid(op) ==
    CASE op = "GetEngineRpm" -> 12
      [] op = "GetVehicleSpeed" -> 13
      [] op = "GetThrottlePosition" -> 17

\* The data bytes of a well answered query: bytes 3.. of its second frame.
AnsweredBytes(log) ==
    LET f == Delivered(log[3])
    IN  [k \in 1..(f.can_dlc - 3) |-> f.data[3 + k]]

\* C22: over a query that succeeded with data bytes b, the RPM decoder needs
\* two bytes and returns v with 4 * v = b[0] * 256 + b[1], the speed decoder
\* needs one byte and returns b[0], the throttle decoder needs one byte and
\* returns floor(b[0] * 100 / 255), which lies in 0..100; a decoder whose
\* query failed or returned too few bytes returns its failure value -1
\* (-4 in units of 1/4 rpm), which is outside the range of its values.
C22_TypedDecoders ==
    last.op \in {"GetEngineRpm", "GetVehicleSpeed", "GetThrottlePosition"} =>
        LET answered == last.out.called
                            /\ WellAnswered(last.log, TypedPid(last.op))
            b == AnsweredBytes(last.log)
        IN  CASE last.op = "GetEngineRpm" ->
                   IF answered /\ Len(b) >= 2
                   THEN last.ret = b[1] * 256 + b[2] /\ last.ret >= 0
                   ELSE last.ret = -4
              [] last.op = "GetVehicleSpeed" ->
                   IF answered /\ Len(b) >= 1
                   THEN last.ret = b[1] /\ last.ret >= 0
                   ELSE last.ret = -1
              [] last.op = "GetThrottlePosition" ->
                   IF answered /\ Len(b) >= 1
                   THEN /\ last.ret * 255 <= b[1] * 100
                        /\ b[1] * 100 < (last.ret + 1) * 255
                        /\ last.ret \in 0..100
                   ELSE last.ret = -1

\* The throttle decoder has returned 99 for the byte 254.
C22_Witness ==
    /\ last.op = "GetThrottlePosition"
    /\ last.out.called
    /\ WellAnswered(last.log, 17)
    /\ AnsweredBytes(last.log) = <<254>>
    /\ last.ret = 99

\* The reply to a BT_CONST read brought the clock: the transfer succeeded
\* and covers the bytes of fclk_can.
ClockReturned(ev) ==
    ev.ok /\ (IsShort(ev.payload) => ev.payload.short >= 8)
ClockOf(reply) ==
    IF IsShort(reply) THEN reply.of.fclk_can ELSE reply.fclk_can

\* C23: set_bitrate first reads the Bit-Timing Limits and then writes the
\* Bit-Timing record; when the read fails it returns that failure and writes
\* nothing; a bit-timing it writes is derived from the clock that the read
\* of the same call returned.
C23_ReadThenWrite ==
    (last.op = "set_bitrate" /\ last.pre # "Closed") =>
        /\ Len(last.log) >= 1
        /\ last.log[1].call = "control_in"
        /\ last.log[1].req = "BT_CONST"
        /\ ~last.log[1].ok => (last.ret < 0 /\ Len(last.log) = 1)
        /\ \A i \in 2..Len(last.log) :
              /\ i = 2
              /\ last.log[i].call = "control_out"
              /\ last.log[i].req = "BITTIMING"
              /\ ClockReturned(last.log[1])
              /\ last.log[i].payload.brp
                   = brp(ClockOf(last.log[1].payload), last.arg)


\* The record the adapter sent with transfer x, whole or cut short.
RecordOf(x) == IF IsShort(x) THEN x.of ELSE x

\* C24: receive_frame on an open handle issues exactly one bulk-in; when that
\* fails or times out it returns a failure (the timeout code for a timeout
\* only), leaves its four outputs as they were and takes nothing from the
\* queue; when it succeeds it returns the can_id, length and timestamp of the
\* record the adapter sent and its first `length` data bytes, and takes
\* exactly that one transfer from the queue.
C24_ReceiveOneFrame ==
    [][(last'.op = "receive_frame" /\ last'.pre # "Closed")
       => LET log == last'.log
              out == last'.out
          IN  /\ Len(log) = 1
              /\ log[1].call = "bulk_in"
              /\ ~log[1].ok =>
                    /\ last'.ret < 0
                    /\ (last'.ret = LIBUSB_ERROR_TIMEOUT)
                           = (log[1].payload = LIBUSB_ERROR_TIMEOUT)
                    /\ out = RxOut(0, Zero8, 0, 0)
                    /\ rxq' = rxq
              /\ log[1].ok =>
                    /\ rxq # <<>>
                    /\ rxq' = Tail(rxq)
                    /\ last'.ret >= 0
                    /\ out.can_id = RecordOf(Head(rxq)).can_id
                    /\ out.length = RecordOf(Head(rxq)).can_dlc
                    /\ out.timestamp = RecordOf(Head(rxq)).timestamp_us
                    /\ \A i \in 1..out.length :
                          out.data[i] = RecordOf(Head(rxq)).data[i]]_vars

\* C25: identify(enable) and get_device_info() leave the session state, the
\* library state and the receive queue as they are, whether their transfer
\* succeeds or fails; on an open handle each issues exactly one control
\* transfer: identify writes one Identify record with mode 1 for a non-zero
\* enable and mode 0 for zero, get_device_info makes one device-config read.
C25_IdentifyAndInfoKeepState ==
    [][(last'.op \in {"identify", "get_device_info"})
       => /\ Lib' = Lib
          /\ SessionState(Lib') = last'.pre
          /\ last'.pre = "Closed" => last'.log = <<>>
          /\ last'.pre # "Closed" =>
                /\ Len(last'.log) = 1
                /\ (last'.ret >= 0) = last'.log[1].ok
                /\ last'.op = "identify" =>
                      /\ last'.log[1].call = "control_out"
                      /\ last'.log[1].req = "IDENTIFY"
                      /\ last'.log[1].payload
                           = [mode |-> IF last'.arg # 0 THEN 1 ELSE 0]
                /\ last'.op = "get_device_info" =>
                      /\ last'.log[1].call = "control_in"
                      /\ last'.log[1].req = "DEVICE_CONFIG"]_vars

\* An identify with enable = 2 has failed on a Running session with a frame
\* pending, and the session is still Running with the frame pending.
C25_Witness ==
    /\ last.op = "identify"
    /\ last.arg = 2
    /\ last.pre = "Running"
    /\ last.ret < 0
    /\ SessionState(Lib) = "Running"
    /\ rxq # <<>>

\* C26: sessions are independent: an object that reports connected has an
\* open handle, and a Disconnect or Dispose of one object neither closes the
\* handle nor stops the channel that another connected object uses.
C26_SessionsIndependent ==
    [][/\ \A o \in Objects : IsConnected'[o] => device_handle' # NULL
       /\ last'.op \in {"Disconnect", "Dispose"} =>
             \A o \in Objects \ {last'.arg} :
                 IsConnected[o] =>
                     /\ IsConnected'[o]
                     /\ device_handle' = device_handle
                     /\ started' = started]_vars

\* Calls that manage the library and its handles; every other libusb call
\* of a log is a transfer or a request on the device handle.
IsLifetimeCall(e) ==
    e.call \in {"libusb_init", "libusb_exit", "libusb_open", "libusb_close"}

\* C27: while no handle is open (before the first open, and after a cleanup
\* until a later init and open succeed) every function other than init,
\* cleanup and open_device returns a failure and issues no transfer; cleanup
\* leaves no handle and the library uninitialised; a transfer is issued only
\* by a call made with a handle open; and an open handle implies that the
\* library is initialised.
C27_NothingWithoutHandle ==
    /\ device_handle # NULL => (is_initialized /\ usb_context # NULL)
    /\ last.op = "cleanup" => (device_handle = NULL /\ ~is_initialized)
    /\ (last.op = "open" /\ last.ret >= 0) => is_initialized
    /\ (last.pre = "Closed" /\ last.op \notin {"none", "init", "cleanup", "open"})
       => (last.ret < 0 /\ last.log = <<>> /\ device_handle = NULL)
    /\ \A i \in 1..Len(last.log) :
          ~IsLifetimeCall(last.log[i]) => last.pre # "Closed"

\* A receive after a cleanup, with a frame still pending at the adapter, has
\* failed without a transfer.
C27_Witness ==
    /\ last.op = "receive_frame"
    /\ last.pre = "Closed"
    /\ \E h \in Handles : closeCount[h] >= 1
    /\ ~is_initialized
    /\ rxq # <<>>
    /\ last.ret < 0
    /\ last.log = <<>>

\* C28: in a sequence of queries on one Running session without a purge,
\* where the only traffic is each request's echo and its one answer, a query
\* whose echo and answer arrive in time succeeds and returns the payload of
\* its own answer, also after an earlier query failed on a late answer.
C28_QueriesStaySynchronised ==
    (last.op = "read_obd_pid" /\ last.pre = "Running" /\ ~last.arg.late)
    => /\ last.ret = 0
       /\ last.out.response_length = Len(vehicle[last.arg.pid])
       /\ SubSeq(last.out.response_data, 1, last.out.response_length)
            = vehicle[last.arg.pid]

====
